---- MODULE Spec2Model ----
(***************************************************************************)
(* Model of the ocflfuse package (src/ocflfuse.go): mount setup (NewRoot,  *)
(* resolveVersion, buildFileMap) and the attribute callbacks of the file   *)
(* nodes (s3File.Getattr with its sync.Once size memo, localFile.Getattr), *)
(* the construction of the inode tree (buildFuseTree, called by OnAdd),    *)
(* the mount command (cmd/mount-ocfl/main.go) and the open, read and       *)
(* release callbacks of both backends.                                     *)
(*                                                                         *)
(* Strings that the code inspects character by character (the version      *)
(* flag) are sequences of one-character strings; paths and keys that the   *)
(* code only concatenates are TLA+ strings.                                *)
(***************************************************************************)
EXTENDS Integers, Sequences, FiniteSets, TLC

\* ------------------------------------------------------------------ bounds
MaxFlagLen == 3      \* longest version flag tried
MaxHead    == 2      \* largest head version of the stored object
MaxCopies  == 2      \* longest content-path list of one manifest entry
NCallers   == 2      \* concurrent FUSE worker goroutines
MaxCalls   == 2      \* Getattr calls issued by one worker
MaxSize    == 1      \* largest content length reported by a backend
MaxLen     == 2      \* longest stored file content, in bytes
MaxRead    == 2      \* largest read buffer handed to a Read callback
MaxSessions == 2     \* os.Open calls made by localFile.Open
MaxCloses  == 2      \* Release calls the kernel may send for one session
IntBits    == 4      \* bits of the signed integers that stand for int64

\* ------------------------------------------------------------- vocabulary
FlagChars    == {"v", "0", "1", "2", "9", "X", "x", "+", "-", " "}
DecDigits    == {"0", "1", "2", "3", "4", "5", "6", "7", "8", "9"}
LogicalPaths == {"a_file.txt", "d/b.txt"}
Digests      == {"d1", "d2"}
ContentPaths == {"v1/content/x", "v2/content/y"}
Backends     == {"s3", "local"}
ObjPath      == "obj"
AbsRoot      == "/store"

VARIABLES
  obj,        \* the stored OCFL object: head, version states, manifest
  backend,    \* kind of storage root handed to NewRoot ("s3" or "local")
  last,       \* the latest NewRoot call: flag and what it returned
  prev,       \* the NewRoot call before it
  onceDone,   \* s3File.sizeOnce: done flag, per remote node
  onceM,      \* s3File.sizeOnce: holder of the mutex (0 = free)
  size,       \* s3File.size
  sizeErr,    \* s3File.sizeErr (TRUE = non-nil)
  pc,         \* position of each worker inside Getattr
  node,       \* node the worker's current call is on
  res,        \* outcome of the worker's latest completed call
  entryDone,  \* sizeOnce.done as read on entry of the worker's call
  probed,     \* the worker's call executed HeadObject itself
  calls,      \* calls started by the worker
  probes,     \* HeadObject requests issued, per remote node
  stats,      \* os.Stat calls issued, per local node
  served,     \* Getattr calls completed, per node
  returned,   \* sizes reported by successful Getattr calls, per node
  rootFiles,  \* the files map held by the root node (s3Root/localRoot.files)
  tree,       \* the inode tree built by the latest OnAdd
  prevTree,   \* the inode tree built by the OnAdd before it
  mpc,        \* position of the mount command (main)
  answered,   \* callbacks answered by the mounted server
  content,    \* bytes stored by the backend for each file node
  sess,       \* open-file sessions of the local backend (localFileHandle)
  fds,        \* sessions whose os.File holds an open descriptor
  op,         \* the latest open, read or release callback and its outcome
  rd,         \* a reader that reads one session from offset 0 to the end
  rcall       \* the Read callback each worker is in: arguments and result

setupVars == <<obj, backend, last, prev>>
serveVars == <<onceDone, onceM, size, sizeErr, pc, node, res,
               entryDone, probed, calls, probes, stats, served, returned>>
treeVars  == <<rootFiles, tree, prevTree>>
mainVars  == <<mpc, answered>>
ioVars    == <<content, sess, fds, op, rd, rcall>>
vars == <<obj, backend, last, prev, onceDone, onceM, size, sizeErr, pc, node,
          res, entryDone, probed, calls, probes, stats, served, returned,
          rootFiles, tree, prevTree, mpc, answered, content, sess, fds, op, rd,
          rcall>>

\* --------------------------------------------------------------- helpers
RECURSIVE SeqsUpTo(_, _)
SeqsUpTo(S, n) ==
  IF n = 0 THEN {<<>>}
  ELSE LET shorter == SeqsUpTo(S, n - 1)
       IN shorter \cup {Append(s, c) : s \in {x \in shorter : Len(x) = n - 1}, c \in S}

EmptyMap == [p \in {} |-> ""]
MapPut(f, k, v) == [x \in (DOMAIN f) \cup {k} |-> IF x = k THEN v ELSE f[x]]

\* every order in which Go's range may visit the keys in S
RECURSIVE Orders(_)
Orders(S) ==
  IF S = {} THEN {<<>>}
  ELSE UNION {{<<x>> \o o : o \in Orders(S \ {x})} : x \in S}

\* ---------------------------------------------------------- fmt.Sscanf %d
DigitVal(c) ==
  CASE c = "0" -> 0 [] c = "1" -> 1 [] c = "2" -> 2 [] c = "3" -> 3
    [] c = "4" -> 4 [] c = "5" -> 5 [] c = "6" -> 6 [] c = "7" -> 7
    [] c = "8" -> 8 [] c = "9" -> 9

RECURSIVE SkipSpace(_)
SkipSpace(s) == IF s # <<>> /\ Head(s) = " " THEN SkipSpace(Tail(s)) ELSE s

RECURSIVE TakeDigits(_)
TakeDigits(s) ==
  IF s # <<>> /\ Head(s) \in DecDigits THEN <<Head(s)>> \o TakeDigits(Tail(s))
  ELSE <<>>

RECURSIVE ParseInt(_)
ParseInt(ds) ==
  IF ds = <<>> THEN 0
  ELSE 10 * ParseInt(SubSeq(ds, 1, Len(ds) - 1)) + DigitVal(ds[Len(ds)])

\* fmt.Sscanf(v, "%d", &n): leading blanks are skipped, one sign is accepted,
\* then the longest run of decimal digits is converted; whatever follows the
\* digits is left unread and is no error.
Sscanf(v) ==
  LET a   == SkipSpace(v)
      neg == a # <<>> /\ Head(a) = "-"
      b   == IF a # <<>> /\ Head(a) \in {"+", "-"} THEN Tail(a) ELSE a
      ds  == TakeDigits(b)
  IN IF ds = <<>> THEN [ok |-> FALSE, n |-> 0]
     ELSE [ok |-> TRUE, n |-> IF neg THEN 0 - ParseInt(ds) ELSE ParseInt(ds)]

\* ------------------------------------------------------- the OCFL object
NoErr == [kind |-> "", detail |-> ""]
Err(k, d) == [kind |-> k, detail |-> d]

\* ocfl.Object.Version(v): v = 0 is the head; nil (0 here) when v is no version
Version(o, v) ==
  IF v = 0 THEN o.head
  ELSE IF v \in 1..o.head THEN v
  ELSE 0

\* manifest[digest] of a Go map: a missing key reads as the nil slice
ManifestGet(o, digest) ==
  IF digest \in DOMAIN o.manifest THEN o.manifest[digest] ELSE <<>>

\* ocfl.VNum.String() without zero padding
RECURSIVE Decimal(_)
Decimal(n) ==
  LET d == <<"0", "1", "2", "3", "4", "5", "6", "7", "8", "9">>
  IN IF n < 10 THEN <<d[n + 1]>> ELSE Decimal(n \div 10) \o <<d[(n % 10) + 1]>>

VNumString(n) == <<"v">> \o Decimal(n)

\* --------------------------------------------------------- resolveVersion
\* variant: the empty flag names the first version instead of the head
VNumOf_Mut(versionFlag, n) == IF versionFlag = <<>> THEN 1 ELSE n

\* vnum := 0 // HEAD, overwritten by n when the flag is not empty
VNumOf(versionFlag, n) == IF versionFlag = <<>> THEN 0 ELSE n

\* strings.HasPrefix(v, "v") then v[1:]: at most one leading v is dropped
StripV(versionFlag) ==
  IF versionFlag # <<>> /\ Head(versionFlag) = "v" THEN Tail(versionFlag)
  ELSE versionFlag

\* variant: the lower limit of a version number is off by one
InvalidNumber_Mut(r) == ~r.ok \/ r.n < 0

\* err != nil || n < 1
InvalidNumber(r) == ~r.ok \/ r.n < 1

\* variant: a version the object does not have falls back to the head
resolveVersion_Mut(o, versionFlag) ==
  LET r    == Sscanf(StripV(versionFlag))
      vnum == IF versionFlag = <<>> THEN 0 ELSE r.n
  IN IF versionFlag # <<>> /\ (~r.ok \/ r.n < 1)
     THEN [ver |-> 0, err |-> Err("invalid version", ""), asked |-> 0]
     ELSE IF Version(o, vnum) = 0
          THEN [ver |-> o.head, err |-> NoErr, asked |-> 1]
          ELSE [ver |-> Version(o, vnum), err |-> NoErr, asked |-> 1]

\* ver = 0 stands for the nil *ObjectVersion; asked counts obj.Version calls
resolveVersion(o, versionFlag) ==
  LET r    == Sscanf(StripV(versionFlag))
      vnum == VNumOf(versionFlag, r.n)
  IN IF versionFlag # <<>> /\ InvalidNumber(r)
     THEN [ver |-> 0, err |-> Err("invalid version", ""), asked |-> 0]
     ELSE IF Version(o, vnum) = 0
          THEN [ver |-> 0, err |-> Err("version not found", ""), asked |-> 1]
          ELSE [ver |-> Version(o, vnum), err |-> NoErr, asked |-> 1]

\* ----------------------------------------------------------- buildFileMap
NilMap == [isNil |-> TRUE, m |-> EmptyMap]
SomeMap(f) == [isNil |-> FALSE, m |-> f]

\* variant: the newest copy is taken instead of the first
FirstContentPath_Mut(contentPaths) == contentPaths[Len(contentPaths)]

\* contentPaths[0]
FirstContentPath(contentPaths) == contentPaths[1]

\* variant: the entries mapped so far are handed back with the error
MissingEntry_Mut(files, digest) ==
  [files |-> SomeMap(files), err |-> Err("missing manifest entry", digest)]

\* what the loop hands back when a digest has no content path
MissingEntry(files, digest) ==
  [files |-> NilMap, err |-> Err("missing manifest entry", digest)]

\* variant: the map is keyed by the digest
FileKey_Mut(logicalPath, digest) == digest

\* files[logicalPath] = ...: the key under which an entry is stored
FileKey(logicalPath, digest) == logicalPath

\* the range loop over state.Paths(), visiting the paths in the given order
RECURSIVE buildFileMapLoop(_, _, _, _)
buildFileMapLoop(o, state, order, files) ==
  IF order = <<>> THEN [files |-> SomeMap(files), err |-> NoErr]
  ELSE LET logicalPath  == Head(order)
           digest       == state[logicalPath]
           contentPaths == ManifestGet(o, digest)
       IN IF Len(contentPaths) = 0 THEN MissingEntry(files, digest)
          ELSE buildFileMapLoop(o, state, Tail(order),
                 MapPut(files, FileKey(logicalPath, digest),
                        o.path \o "/" \o FirstContentPath(contentPaths)))

\* pick is an order of all logical paths; the loop meets the paths of the
\* state in that order
buildFileMap(o, ver, pick) ==
  LET state == o.versions[ver]
  IN buildFileMapLoop(o, state, SelectSeq(pick, LAMBDA p : p \in DOMAIN state),
                      EmptyMap)

\* ---------------------------------------------------------------- NewRoot
NoRoot == [kind |-> "nil", files |-> EmptyMap]
NoInfo == [Version |-> <<>>, FileCount |-> 0]
Failed(e) == [ok |-> FALSE, root |-> NoRoot, info |-> NoInfo, err |-> e]

\* stages before resolveVersion that can fail on their own
S3Stages    == {"loading AWS config", "opening OCFL root", "loading OCFL object"}
LocalStages == {"resolving path", "opening local FS", "opening OCFL root",
                "loading OCFL object"}

\* filepath.Join(absRoot, filepath.FromSlash(relPath))
LocalFiles(relFiles) ==
  [logicalPath \in DOMAIN relFiles |-> AbsRoot \o "/" \o relFiles[logicalPath]]

MakeInfo(ver, files) ==
  [Version |-> VNumString(ver), FileCount |-> Cardinality(DOMAIN files)]

newS3Root(o, versionFlag, pick, broken) ==
  IF broken \in S3Stages THEN Failed(Err(broken, ""))
  ELSE LET rv == resolveVersion(o, versionFlag)
       IN IF rv.err # NoErr THEN Failed(rv.err)
          ELSE LET fm == buildFileMap(o, rv.ver, pick)
               IN IF fm.err # NoErr THEN Failed(fm.err)
                  ELSE [ok   |-> TRUE,
                        root |-> [kind |-> "s3Root", files |-> fm.files.m],
                        info |-> MakeInfo(rv.ver, fm.files.m),
                        err  |-> NoErr]

newLocalRoot(o, versionFlag, pick, broken) ==
  IF broken \in LocalStages THEN Failed(Err(broken, ""))
  ELSE LET rv == resolveVersion(o, versionFlag)
       IN IF rv.err # NoErr THEN Failed(rv.err)
          ELSE LET fm == buildFileMap(o, rv.ver, pick)
               IN IF fm.err # NoErr THEN Failed(fm.err)
                  ELSE [ok   |-> TRUE,
                        root |-> [kind  |-> "localRoot",
                                  files |-> LocalFiles(fm.files.m)],
                        info |-> MakeInfo(rv.ver, LocalFiles(fm.files.m)),
                        err  |-> NoErr]

\* strings.HasPrefix(storageRoot, "s3://") selects the backend
NewRoot(o, b, versionFlag, pick, broken) ==
  IF b = "s3" THEN newS3Root(o, versionFlag, pick, broken)
  ELSE newLocalRoot(o, versionFlag, pick, broken)

\* ------------------------------------------ NewOCFLObject (src/main.go)
\* the reverse manifest lookup: digestToPath[digest] = paths[0] for every
\* digest whose list is not empty
digestToPath(o) ==
  [d \in {x \in DOMAIN o.manifest : Len(o.manifest[x]) > 0} |-> o.manifest[d][1]]

\* the file map the S3-only program builds from the state of a version: nil
\* when a digest of the state is not in digestToPath
objectFiles(o, state) ==
  IF \E p \in DOMAIN state : state[p] \notin DOMAIN digestToPath(o) THEN NilMap
  ELSE SomeMap([p \in DOMAIN state |-> o.path \o "/" \o digestToPath(o)[state[p]]])

\* one NewRoot call as the caller sees it; stage is where NewRoot returned,
\* old is the map NewOCFLObject builds for the version resolved
NoCall ==
  [n |-> 0, flag |-> <<>>, stage |-> "none",
   rv |-> [ver |-> 0, err |-> NoErr, asked |-> 0],
   fm |-> [files |-> NilMap, err |-> NoErr],
   old |-> NilMap,
   out |-> Failed(NoErr)]

CallRecord(o, b, versionFlag, pick, broken) ==
  LET early == broken \in (IF b = "s3" THEN S3Stages ELSE LocalStages)
      rv    == resolveVersion(o, versionFlag)
      fm    == buildFileMap(o, rv.ver, pick)
  IN [n     |-> last.n + 1,
      flag  |-> versionFlag,
      stage |-> IF early THEN "setup"
                ELSE IF rv.err # NoErr THEN "resolveVersion"
                ELSE IF fm.err # NoErr THEN "buildFileMap"
                ELSE "done",
      rv    |-> IF early THEN NoCall.rv ELSE rv,
      fm    |-> IF early \/ rv.err # NoErr THEN NoCall.fm ELSE fm,
      old   |-> IF early \/ rv.err # NoErr THEN NilMap
                ELSE objectFiles(o, o.versions[rv.ver]),
      out   |-> NewRoot(o, b, versionFlag, pick, broken)]

\* ------------------------------------------------------------ the nodes
Workers    == 1..NCallers
S3Nodes    == {"s1", "s2"}
LocalNodes == {"l1", "l2"}
Nodes      == S3Nodes \cup LocalNodes
Sizes      == 0..MaxSize

\* answers of the remote store to HeadObject: an error, a response without
\* ContentLength, or a response with it
RemoteStates ==
  {[up |-> FALSE, hasLen |-> FALSE, len |-> 0],
   [up |-> TRUE, hasLen |-> FALSE, len |-> 0]}
  \cup {[up |-> TRUE, hasLen |-> TRUE, len |-> k] : k \in Sizes}

\* answers of the local disk to os.Stat: an error or the file's size
DiskStates ==
  {[exists |-> FALSE, len |-> 0]} \cup {[exists |-> TRUE, len |-> k] : k \in Sizes}

\* variant: the mode of the S3-only program's file nodes, 0644 | S_IFREG
FileMode_Mut == 6 * 64 + 4 * 8 + 4 + 8 * 4096

\* 0444 | syscall.S_IFREG
FileMode == 4 * 64 + 4 * 8 + 4 + 8 * 4096

\* 0555 | syscall.S_IFDIR
DirMode == 5 * 64 + 5 * 8 + 5 + 4 * 4096

NoRes == [errno |-> "none", Size |-> 0, Mode |-> 0]
EIO   == [errno |-> "EIO", Size |-> 0, Mode |-> 0]
Attr(sz) == [errno |-> "OK", Size |-> sz, Mode |-> FileMode]

\* ------------------------------------------- state before mount and I/O
\* an inode of go-fuse: its mode, the locator of a file node (s3Key or
\* path) and its children by name; inode 1 is the root directory
Inode(mode, key) == [mode |-> mode, key |-> key, children |-> [x \in {} |-> 0]]
NoTree == [built |-> FALSE, crashed |-> FALSE, lib |-> "panic",
           inodes |-> <<Inode("dir", "")>>]

Bytes    == {"x", "y"}
Contents == SeqsUpTo(Bytes, MaxLen)
Sessions == 1..MaxSessions
NoSession == [node |-> "l1", st |-> "none", closes |-> 0]
NoOp == [kind |-> "none", node |-> "l1", sess |-> 0, off |-> 0, len |-> 0,
         fault |-> FALSE, data |-> <<>>, errno |-> "none", req |-> <<>>,
         hint |-> ""]
NoReader == [sess |-> 0, got |-> <<>>, st |-> "idle"]
NoRead == [st |-> "idle", kind |-> "none", node |-> "l1", sess |-> 0,
           off |-> 0, len |-> 0, fault |-> FALSE, data |-> <<>>,
           errno |-> "none"]

treeIdle ==
  /\ rootFiles = EmptyMap
  /\ tree = NoTree
  /\ prevTree = NoTree

mainIdle ==
  /\ mpc = "start"
  /\ answered = 0

ioIdle ==
  /\ content = [n \in Nodes |-> <<>>]
  /\ sess = [s \in Sessions |-> NoSession]
  /\ fds = {}
  /\ op = NoOp
  /\ rd = NoReader
  /\ rcall = [t \in Workers |-> NoRead]

setupIdle ==
  /\ obj = [head |-> 1, path |-> ObjPath,
            versions |-> [v \in {1} |-> EmptyMap], manifest |-> EmptyMap]
  /\ backend = "s3"
  /\ last = NoCall
  /\ prev = NoCall

serveIdle ==
  /\ onceDone = [n \in S3Nodes |-> FALSE]
  /\ onceM = [n \in S3Nodes |-> 0]
  /\ size = [n \in S3Nodes |-> 0]
  /\ sizeErr = [n \in S3Nodes |-> FALSE]
  /\ pc = [t \in Workers |-> "idle"]
  /\ node = [t \in Workers |-> "s1"]
  /\ res = [t \in Workers |-> NoRes]
  /\ entryDone = [t \in Workers |-> FALSE]
  /\ probed = [t \in Workers |-> FALSE]
  /\ calls = [t \in Workers |-> 0]
  /\ probes = [n \in S3Nodes |-> 0]
  /\ stats = [n \in LocalNodes |-> 0]
  /\ served = [n \in Nodes |-> 0]
  /\ returned = [n \in Nodes |-> {}]

\* ------------------------------------------------- s3File.Getattr, stepwise
\* sync.Once.Do, fast path: done is read without the lock
GetattrEnter(t, n) ==
  /\ pc[t] = "idle"
  /\ calls[t] < MaxCalls
  /\ n \in S3Nodes
  /\ calls' = [calls EXCEPT ![t] = @ + 1]
  /\ node' = [node EXCEPT ![t] = n]
  /\ res' = [res EXCEPT ![t] = NoRes]
  /\ entryDone' = [entryDone EXCEPT ![t] = onceDone[n]]
  /\ probed' = [probed EXCEPT ![t] = FALSE]
  /\ pc' = [pc EXCEPT ![t] = IF onceDone[n] THEN "ret" ELSE "lock"]
  /\ UNCHANGED <<onceDone, onceM, size, sizeErr, probes, stats,
                 served, returned>>
  /\ UNCHANGED setupVars
  /\ UNCHANGED <<treeVars, mainVars, ioVars>>

\* variant: the size fetch is not guarded
MayLock_Mut(t) == TRUE

\* the worker may take the mutex of sizeOnce
MayLock(t) == onceM[node[t]] = 0

\* sync.Once.doSlow: m.Lock(), then done is read again; when it is still 0
\* the HeadObject request goes out with the mutex held
OnceLock(t) ==
  /\ pc[t] = "lock"
  /\ MayLock(t)
  /\ IF onceDone[node[t]]
     THEN /\ pc' = [pc EXCEPT ![t] = "ret"]
          /\ UNCHANGED <<onceM, probes, probed>>
     ELSE /\ pc' = [pc EXCEPT ![t] = "head"]
          /\ onceM' = [onceM EXCEPT ![node[t]] = t]
          /\ probes' = [probes EXCEPT ![node[t]] = @ + 1]
          /\ probed' = [probed EXCEPT ![t] = TRUE]
  /\ UNCHANGED <<onceDone, size, sizeErr, node, res, entryDone,
                 calls, stats, served, returned>>
  /\ UNCHANGED setupVars
  /\ UNCHANGED <<treeVars, mainVars, ioVars>>

\* variant: only a failed fetch is remembered
DoneAfter_Mut(resp) == ~resp.up

\* what the function run by sizeOnce leaves in the done flag
DoneAfter(resp) == TRUE

\* HeadObject answers; the function passed to Do stores sizeErr or size, the
\* deferred done.Store(1) and m.Unlock() run
HeadObjectReturn(t, resp) ==
  /\ pc[t] = "head"
  /\ resp \in RemoteStates
  /\ LET n == node[t]
     IN /\ sizeErr' = [sizeErr EXCEPT ![n] = IF resp.up THEN @ ELSE TRUE]
        /\ size' = [size EXCEPT ![n] = IF resp.up /\ resp.hasLen THEN resp.len ELSE @]
        /\ onceDone' = [onceDone EXCEPT ![n] = DoneAfter(resp)]
        /\ onceM' = [onceM EXCEPT ![n] = 0]
  /\ pc' = [pc EXCEPT ![t] = "ret"]
  /\ UNCHANGED <<node, res, entryDone, probed, calls, probes,
                 stats, served, returned>>
  /\ UNCHANGED setupVars
  /\ UNCHANGED <<treeVars, mainVars, ioVars>>

\* fetchSize returns f.size, f.sizeErr; Getattr maps an error to EIO
GetattrReturn(t) ==
  /\ pc[t] = "ret"
  /\ LET n == node[t]
     IN /\ res' = [res EXCEPT ![t] = IF sizeErr[n] THEN EIO ELSE Attr(size[n])]
        /\ served' = [served EXCEPT ![n] = @ + 1]
        /\ returned' = [returned EXCEPT ![n] =
                          IF sizeErr[n] THEN @ ELSE @ \cup {size[n]}]
  /\ pc' = [pc EXCEPT ![t] = "idle"]
  /\ UNCHANGED <<onceDone, onceM, size, sizeErr, node, entryDone,
                 probed, calls, probes, stats>>
  /\ UNCHANGED setupVars
  /\ UNCHANGED <<treeVars, mainVars, ioVars>>

\* ------------------------- OCFLFile.Getattr of the S3-only implementation
\* the node keeps size and sizeOK with no lock and no sync.Once; in this part
\* onceDone[n] is the sizeOK flag of node n and probes[n] counts the
\* HeadObject requests sent for it

\* 0644 | syscall.S_IFREG
OldFileMode == 6 * 64 + 4 * 8 + 4 + 8 * 4096

\* if !f.sizeOK { resp, err := f.s3Client.HeadObject(...)
OCFLFileGetattrEnter(t, n) ==
  /\ pc[t] = "idle"
  /\ calls[t] < MaxCalls
  /\ n \in S3Nodes
  /\ calls' = [calls EXCEPT ![t] = @ + 1]
  /\ node' = [node EXCEPT ![t] = n]
  /\ res' = [res EXCEPT ![t] = NoRes]
  /\ pc' = [pc EXCEPT ![t] = IF onceDone[n] THEN "out" ELSE "HeadObject"]
  /\ probes' = [probes EXCEPT ![n] = IF onceDone[n] THEN @ ELSE @ + 1]
  /\ UNCHANGED <<onceDone, onceM, size, sizeErr, entryDone, probed, stats,
                 served, returned>>
  /\ UNCHANGED setupVars
  /\ UNCHANGED <<treeVars, mainVars, ioVars>>

\* HeadObject answers: if err != nil { return syscall.EIO }; otherwise
\* if resp.ContentLength != nil { f.size = *resp.ContentLength }
OCFLFileHeadObject(t, resp) ==
  /\ pc[t] = "HeadObject"
  /\ resp \in RemoteStates
  /\ LET n == node[t]
     IN IF resp.up
        THEN /\ size' = [size EXCEPT ![n] = IF resp.hasLen THEN resp.len ELSE @]
             /\ pc' = [pc EXCEPT ![t] = "sizeOK"]
             /\ UNCHANGED <<res, served>>
        ELSE /\ res' = [res EXCEPT ![t] = EIO]
             /\ served' = [served EXCEPT ![n] = @ + 1]
             /\ pc' = [pc EXCEPT ![t] = "idle"]
             /\ UNCHANGED size
  /\ UNCHANGED <<onceDone, onceM, sizeErr, node, entryDone, probed, calls,
                 probes, stats, returned>>
  /\ UNCHANGED setupVars
  /\ UNCHANGED <<treeVars, mainVars, ioVars>>

\* f.sizeOK = true
OCFLFileSizeOK(t) ==
  /\ pc[t] = "sizeOK"
  /\ onceDone' = [onceDone EXCEPT ![node[t]] = TRUE]
  /\ pc' = [pc EXCEPT ![t] = "out"]
  /\ UNCHANGED <<onceM, size, sizeErr, node, res, entryDone, probed, calls,
                 probes, stats, served, returned>>
  /\ UNCHANGED setupVars
  /\ UNCHANGED <<treeVars, mainVars, ioVars>>

\* out.Mode = 0644 | syscall.S_IFREG; out.Size = uint64(f.size); return 0
OCFLFileGetattrReturn(t) ==
  /\ pc[t] = "out"
  /\ LET n == node[t]
     IN /\ res' = [res EXCEPT ![t] = [errno |-> "OK", Size |-> size[n],
                                      Mode |-> OldFileMode]]
        /\ served' = [served EXCEPT ![n] = @ + 1]
        /\ returned' = [returned EXCEPT ![n] = @ \cup {size[n]}]
  /\ pc' = [pc EXCEPT ![t] = "idle"]
  /\ UNCHANGED <<onceDone, onceM, size, sizeErr, node, entryDone, probed,
                 calls, probes, stats>>
  /\ UNCHANGED setupVars
  /\ UNCHANGED <<treeVars, mainVars, ioVars>>

\* two callers of Getattr on one node of the S3-only implementation
InitOld ==
  /\ setupIdle
  /\ serveIdle
  /\ treeIdle
  /\ mainIdle
  /\ ioIdle

NextOld ==
  \/ \E t \in {1, 2} : OCFLFileGetattrEnter(t, "s1")
  \/ \E t \in {1, 2}, resp \in RemoteStates : OCFLFileHeadObject(t, resp)
  \/ \E t \in {1, 2} : OCFLFileSizeOK(t)
  \/ \E t \in {1, 2} : OCFLFileGetattrReturn(t)

SpecOld == InitOld /\ [][NextOld]_vars

\* ------------------------------------------------------ localFile.Getattr
LocalGetattr(t, n, info) ==
  /\ pc[t] = "idle"
  /\ info \in DiskStates
  /\ calls[t] < MaxCalls
  /\ n \in LocalNodes
  /\ calls' = [calls EXCEPT ![t] = @ + 1]
  /\ node' = [node EXCEPT ![t] = n]
  /\ entryDone' = [entryDone EXCEPT ![t] = FALSE]
  /\ probed' = [probed EXCEPT ![t] = FALSE]
  /\ stats' = [stats EXCEPT ![n] = @ + 1]
  /\ res' = [res EXCEPT ![t] = IF info.exists THEN Attr(info.len) ELSE EIO]
  /\ served' = [served EXCEPT ![n] = @ + 1]
  /\ returned' = [returned EXCEPT ![n] =
                    IF info.exists THEN @ \cup {info.len} ELSE @]
  /\ UNCHANGED <<onceDone, onceM, size, sizeErr, pc, probes>>
  /\ UNCHANGED setupVars
  /\ UNCHANGED <<treeVars, mainVars, ioVars>>

\* ---------------------------------------------------------- ocflDir.Getattr
DirNodes == {"d1"}

\* out.Mode is set and 0 returned: no request to a backend, no other effect
DirGetattr(t, d) ==
  /\ pc[t] = "idle"
  /\ calls[t] < MaxCalls
  /\ d \in DirNodes
  /\ calls' = [calls EXCEPT ![t] = @ + 1]
  /\ node' = [node EXCEPT ![t] = d]
  /\ entryDone' = [entryDone EXCEPT ![t] = FALSE]
  /\ probed' = [probed EXCEPT ![t] = FALSE]
  /\ res' = [res EXCEPT ![t] = [errno |-> "OK", Size |-> 0, Mode |-> DirMode]]
  /\ UNCHANGED <<onceDone, onceM, size, sizeErr, pc, probes, stats, served,
                 returned>>
  /\ UNCHANGED setupVars
  /\ UNCHANGED <<treeVars, mainVars, ioVars>>

InitServe ==
  /\ setupIdle
  /\ serveIdle
  /\ treeIdle
  /\ mainIdle
  /\ ioIdle

\* the callers of SpecServe all work on one remote and one local node
NextServe ==
  \/ \E t \in Workers, n \in {"s1"} : GetattrEnter(t, n)
  \/ \E t \in Workers : OnceLock(t)
  \/ \E t \in Workers, resp \in RemoteStates : HeadObjectReturn(t, resp)
  \/ \E t \in Workers : GetattrReturn(t)
  \/ \E t \in Workers, n \in {"l1"}, info \in DiskStates : LocalGetattr(t, n, info)

SpecServe == InitServe /\ [][NextServe]_vars

\* ----------------------------------------------------------- mount setup
Flags     == SeqsUpTo(FlagChars, MaxFlagLen)
HeadFlags == {<<>>} \cup {VNumString(n) : n \in 1..MaxHead}
Picks     == Orders(LogicalPaths)

\* content-path lists of a manifest entry: no path twice
PathLists ==
  {l \in SeqsUpTo(ContentPaths, MaxCopies) :
     \A i, j \in 1..Len(l) : l[i] = l[j] => i = j}

States    == UNION {[S -> Digests] : S \in SUBSET LogicalPaths}
Manifests == UNION {[D -> PathLists] : D \in SUBSET Digests}

Objects ==
  UNION {[head : {h}, path : {ObjPath}, versions : [1..h -> States],
          manifest : Manifests] : h \in 1..MaxHead}

\* objects with one file whose content is stored once
PlainObjects ==
  {o \in Objects :
     /\ \A v \in 1..o.head : o.versions[v] = [p \in {"a_file.txt"} |-> "d1"]
     /\ o.manifest = [d \in {"d1"} |-> <<"v1/content/x">>]}

\* objects whose manifest lists one content path per digest, none of them twice
TidyObjects ==
  {o \in Objects :
     /\ \A d \in DOMAIN o.manifest : Len(o.manifest[d]) = 1
     /\ \A d, e \in DOMAIN o.manifest : o.manifest[d] = o.manifest[e] => d = e}

\* one call of NewRoot(ctx, storageRoot, objectID, version)
Mount(versionFlag, pick, broken) ==
  /\ prev' = last
  /\ last' = CallRecord(obj, backend, versionFlag, pick, broken)
  /\ UNCHANGED <<obj, backend>>
  /\ UNCHANGED serveVars
  /\ UNCHANGED <<treeVars, mainVars, ioVars>>

\* one call, with any flag and any failing stage
FirstMount ==
  /\ last.n = 0
  /\ \E versionFlag \in Flags, pick \in Picks,
        broken \in {"none"} \cup S3Stages \cup LocalStages :
       Mount(versionFlag, pick, broken)

InitResolve ==
  /\ obj \in PlainObjects
  /\ backend \in Backends
  /\ last = NoCall
  /\ prev = NoCall
  /\ serveIdle
  /\ treeIdle
  /\ mainIdle
  /\ ioIdle

NextResolve == FirstMount

SpecResolve == InitResolve /\ [][NextResolve]_vars

\* one call on any object, with a flag that names one of its versions
MapMount ==
  /\ last.n = 0
  /\ \E versionFlag \in HeadFlags, pick \in Picks : Mount(versionFlag, pick, "none")

InitMap ==
  /\ obj \in Objects
  /\ backend \in Backends
  /\ last = NoCall
  /\ prev = NoCall
  /\ serveIdle
  /\ treeIdle
  /\ mainIdle
  /\ ioIdle

NextMap == MapMount

SpecMap == InitMap /\ [][NextMap]_vars

\* a call and the call after it on the same object
Remount ==
  /\ prev.n = 0
  /\ \E versionFlag \in HeadFlags, pick \in Picks : Mount(versionFlag, pick, "none")

InitHead ==
  /\ obj \in TidyObjects
  /\ backend \in Backends
  /\ last = NoCall
  /\ prev = NoCall
  /\ serveIdle
  /\ treeIdle
  /\ mainIdle
  /\ ioIdle

NextHead == Remount

SpecHead == InitHead /\ [][NextHead]_vars

\* ---------------------------------------------------------- buildFuseTree
TreePaths == {"a", "a/b.txt", "a/c.txt", "a/d/e.txt", "a_file.txt"}

\* the text of a path: every "/" on its own, the characters between two "/"
\* kept together
PathChars(p) ==
  CASE p = "a"          -> <<"a">>
    [] p = "a/b.txt"    -> <<"a", "/", "b.txt">>
    [] p = "a/c.txt"    -> <<"a", "/", "c.txt">>
    [] p = "a/d/e.txt"  -> <<"a", "/", "d", "/", "e.txt">>
    [] p = "a_file.txt" -> <<"a_file.txt">>
    [] p = "d/b.txt"    -> <<"d", "/", "b.txt">>

\* strings.Split(logicalPath, "/")
RECURSIVE SplitFrom(_, _, _)
SplitFrom(cs, parts, cur) ==
  IF cs = <<>> THEN Append(parts, cur)
  ELSE IF Head(cs) = "/" THEN SplitFrom(Tail(cs), Append(parts, cur), "")
  ELSE SplitFrom(Tail(cs), parts, cur \o Head(cs))

Split(logicalPath) == SplitFrom(PathChars(logicalPath), <<>>, "")

\* go-fuse is not pinned in the sources: adding a child to an inode that is
\* no directory either panics (its children map was never made) or attaches
LibKinds == {"panic", "attach"}

\* dir.GetChild(part): 0 stands for nil
GetChild(t, dir, name) ==
  IF name \in DOMAIN t.inodes[dir].children THEN t.inodes[dir].children[name]
  ELSE 0

\* dir.NewPersistentInode(ctx, node, attr): the new inode is the last one
NewPersistentInode(t, mode, key) ==
  [t EXCEPT !.inodes = Append(@, Inode(mode, key))]

\* dir.AddChild(name, child, false): an existing child of that name is kept
\* and the new one is not attached
AddChild(t, dir, name, child) ==
  IF name \in DOMAIN t.inodes[dir].children THEN t
  ELSE IF t.inodes[dir].mode # "dir" /\ t.lib = "panic"
       THEN [t EXCEPT !.crashed = TRUE]
       ELSE [t EXCEPT !.inodes[dir].children = MapPut(@, name, child)]

\* variant: a directory is made for every path, found or not
Reuse_Mut(child) == FALSE

\* if child == nil { ... } : a child that is found is walked into
Reuse(child) == child # 0

\* the inner loop over parts[:len(parts)-1], starting in dir
RECURSIVE walk(_, _, _)
walk(t, dir, parts) ==
  IF t.crashed \/ Len(parts) <= 1 THEN [t |-> t, dir |-> dir]
  ELSE LET part  == Head(parts)
           child == GetChild(t, dir, part)
       IN IF Reuse(child) THEN walk(t, child, Tail(parts))
          ELSE LET made == NewPersistentInode(t, "dir", "")
                   id   == Len(made.inodes)
               IN walk(AddChild(made, dir, part, id), id, Tail(parts))

\* the range loop over files, visiting the logical paths in the given order;
\* a panic ends it
RECURSIVE buildFuseTreeLoop(_, _, _)
buildFuseTreeLoop(t, files, order) ==
  IF order = <<>> \/ t.crashed THEN t
  ELSE LET logicalPath == Head(order)
           parts       == Split(logicalPath)
           w           == walk(t, 1, parts)
           filename    == parts[Len(parts)]
           made        == NewPersistentInode(w.t, "file", files[logicalPath])
       IN IF w.t.crashed THEN w.t
          ELSE buildFuseTreeLoop(
                 AddChild(made, w.dir, filename, Len(made.inodes)),
                 files, Tail(order))

buildFuseTree(files, order, lib) ==
  [buildFuseTreeLoop([NoTree EXCEPT !.lib = lib], files, order)
     EXCEPT !.built = TRUE]

\* s3Root.OnAdd / localRoot.OnAdd: the tree is built from the root's files
OnAdd(order, lib) ==
  /\ order \in Orders(DOMAIN rootFiles)
  /\ lib \in LibKinds
  /\ prevTree' = tree
  /\ tree' = buildFuseTree(rootFiles, order, lib)
  /\ UNCHANGED rootFiles

\* locator that the flat maps of SpecTree bind to a logical path
KeyOf(p) == ObjPath \o "/v1/content/" \o p
FlatMaps == {[p \in S |-> KeyOf(p)] : S \in SUBSET TreePaths}

\* two roots holding the same files are mounted with the same library; each
\* OnAdd ranges over the map in an order of its own
Build ==
  /\ ~prevTree.built
  /\ \E order \in Orders(DOMAIN rootFiles), lib \in LibKinds :
       /\ tree.built => lib = tree.lib
       /\ OnAdd(order, lib)
  /\ UNCHANGED <<setupVars, serveVars, mainVars, ioVars>>

InitTree ==
  /\ setupIdle
  /\ serveIdle
  /\ rootFiles \in FlatMaps
  /\ tree = NoTree
  /\ prevTree = NoTree
  /\ mainIdle
  /\ ioIdle

NextTree == Build

SpecTree == InitTree /\ [][NextTree]_vars

\* ------------------------------------------ main (cmd/mount-ocfl/main.go)
MainPaths == {"a", "a/b.txt", "a_file.txt"}
MainFlags == {<<>>, <<"v", "1">>, <<"v", "2">>, <<"v", "X">>}

\* stored objects with one version: one file, two files under a directory,
\* a file and a directory of the same name, and a digest without manifest
\* entry
MainStates ==
  {[p \in {"a_file.txt"} |-> "d1"],
   [p \in {"a_file.txt", "a/b.txt"} |-> IF p = "a/b.txt" THEN "d2" ELSE "d1"],
   [p \in {"a", "a/b.txt"} |-> IF p = "a" THEN "d1" ELSE "d2"],
   [p \in {"a_file.txt"} |-> "d9"]}

MainObjects ==
  {[head |-> 1, path |-> ObjPath, versions |-> [v \in {1} |-> st],
    manifest |-> [d \in {"d1", "d2"} |->
                    IF d = "d1" THEN <<"v1/content/x">> ELSE <<"v1/content/y">>]] :
   st \in MainStates}

\* result, err := ocflfuse.NewRoot(...); log.Fatalf on an error
MainNewRoot(versionFlag, pick, broken) ==
  /\ mpc = "start"
  /\ prev' = last
  /\ last' = CallRecord(obj, backend, versionFlag, pick, broken)
  /\ IF last'.out.ok
     THEN /\ rootFiles' = last'.out.root.files
          /\ mpc' = "mkdir"
     ELSE /\ rootFiles' = rootFiles
          /\ mpc' = "fatal"
  /\ UNCHANGED <<obj, backend, tree, prevTree, answered>>
  /\ UNCHANGED <<serveVars, ioVars>>

\* os.MkdirAll(mountpoint, 0755); log.Fatalf on an error
MainMkdir(made) ==
  /\ mpc = "mkdir"
  /\ mpc' = IF made THEN "mount" ELSE "fatal"
  /\ UNCHANGED <<setupVars, serveVars, treeVars, answered, ioVars>>

\* fs.Mount(mountpoint, result.Root, opts): the root's OnAdd runs, then the
\* mount is made; log.Fatalf on an error, the process dies on a panic
\* variant: the tree is also built again while the server is serving
Attaching_Mut == mpc \in {"mount", "serving"}

\* the root is attached, and OnAdd called, by fs.Mount and nowhere else
Attaching == mpc = "mount"

MainMount(order, lib, mounted) ==
  /\ Attaching
  /\ OnAdd(order, lib)
  /\ mpc' = IF tree'.crashed THEN "panic"
            ELSE IF mounted THEN "serving" ELSE "fatal"
  /\ UNCHANGED <<setupVars, serveVars, answered, ioVars>>

\* the server answers one callback from the mounted tree
Answer ==
  /\ mpc \in {"serving", "waiting"}
  /\ answered < MaxCalls
  /\ answered' = answered + 1
  /\ UNCHANGED <<setupVars, serveVars, treeVars, mpc, ioVars>>

\* signal.Notify(sigChan, SIGINT, SIGTERM); go func() {...}(); server.Wait()
MainNotify ==
  /\ mpc = "serving"
  /\ mpc' = "waiting"
  /\ UNCHANGED <<setupVars, serveVars, treeVars, answered, ioVars>>

\* the signal finds no handler: signal.Notify has not been called yet and
\* the Go runtime ends the process
Uncaught == mpc = "serving"

\* SIGINT or SIGTERM is delivered: without a handler the process dies with
\* the filesystem mounted; with it the goroutine's <-sigChan returns
Signal ==
  /\ mpc \in {"serving", "waiting"}
  /\ mpc' = IF Uncaught THEN "killed" ELSE "unmounting"
  /\ UNCHANGED <<setupVars, serveVars, treeVars, answered, ioVars>>

\* server.Unmount() in the goroutine; its error is dropped. When it
\* succeeds server.Wait() returns and main ends; when it fails (the mount is
\* busy) the goroutine is over and main stays in server.Wait()
Unmount(done) ==
  /\ mpc = "unmounting"
  /\ mpc' = IF done THEN "exit" ELSE "stuck"
  /\ UNCHANGED <<setupVars, serveVars, treeVars, answered, ioVars>>

InitMain ==
  /\ obj \in MainObjects
  /\ backend \in Backends
  /\ last = NoCall
  /\ prev = NoCall
  /\ serveIdle
  /\ treeIdle
  /\ mainIdle
  /\ ioIdle

NextMain ==
  \/ \E versionFlag \in MainFlags, pick \in Orders(MainPaths),
        broken \in {"none"} \cup S3Stages \cup LocalStages :
       MainNewRoot(versionFlag, pick, broken)
  \/ \E made \in BOOLEAN : MainMkdir(made)
  \/ \E order \in Orders(DOMAIN rootFiles), lib \in LibKinds, mounted \in BOOLEAN :
       MainMount(order, lib, mounted)
  \/ Answer
  \/ MainNotify
  \/ Signal
  \/ \E done \in BOOLEAN : Unmount(done)

SpecMain == InitMain /\ [][NextMain]_vars

\* --------------------------------------------- localFileHandle.Read
Min(a, b) == IF a < b THEN a ELSE b

\* variant: a closed file is read like an open one
ReadAt_Mut(file, closed, n, off, fault) ==
  IF fault THEN [n |-> 0, err |-> "io", buf |-> [i \in 1..n |-> "?"]]
  ELSE LET cnt == IF off >= Len(file) THEN 0 ELSE Min(n, Len(file) - off)
       IN [n   |-> cnt,
           err |-> IF cnt < n THEN "EOF" ELSE "nil",
           buf |-> [i \in 1..n |-> IF i <= cnt THEN file[off + i] ELSE "?"]]

\* fh.file.ReadAt(dest, off) on a buffer of n bytes: the count, the error and
\* the buffer afterwards ("?" is a byte of dest that ReadAt did not write)
ReadAt(file, closed, n, off, fault) ==
  IF closed THEN [n |-> 0, err |-> "closed", buf |-> [i \in 1..n |-> "?"]]
  ELSE IF fault THEN [n |-> 0, err |-> "io", buf |-> [i \in 1..n |-> "?"]]
  ELSE LET cnt == IF off >= Len(file) THEN 0 ELSE Min(n, Len(file) - off)
       IN [n   |-> cnt,
           err |-> IF cnt < n THEN "EOF" ELSE "nil",
           buf |-> [i \in 1..n |-> IF i <= cnt THEN file[off + i] ELSE "?"]]

\* variant: the end of the file is reported as a failure
IsFailure_Mut(err) == err # "nil"

\* err != nil && err != io.EOF
IsFailure(err) == err # "nil" /\ err # "EOF"

\* variant: the slice ends one byte early
Taken_Mut(buf, n) == SubSeq(buf, 1, n - 1)

\* dest[:n]
Taken(buf, n) == SubSeq(buf, 1, n)

localRead(file, closed, n, off, fault) ==
  LET r == ReadAt(file, closed, n, off, fault)
  IN IF IsFailure(r.err) THEN [data |-> <<>>, errno |-> "EIO"]
     ELSE [data |-> Taken(r.buf, r.n), errno |-> "OK"]

\* ------------------------------------------------------------ s3File.Read
\* int64 arithmetic: the sum is kept in IntBits bits, two's complement
MaxInt == 2 ^ (IntBits - 1) - 1
Wrap(x) == ((x + 2 ^ (IntBits - 1)) % (2 ^ IntBits)) - 2 ^ (IntBits - 1)

\* fmt.Sprintf("bytes=%d-%d", off, off+int64(len(dest))-1)
RangeOf(off, n) == [first |-> off, last |-> Wrap(off + n - 1)]

\* answers of the store to a ranged GetObject: the request fails, the body
\* breaks off, the store disregards the Range header, or the store answers
Outcomes == {"ok", "request error", "body error"}
AllOutcomes == Outcomes \cup {"whole"}
Failing(outcome) == outcome \in {"request error", "body error"}

\* a header whose last byte lies before its first is not a byte range; a
\* store ignores such a header and sends the whole object
ValidRange(range) == range.first >= 0 /\ range.last >= range.first

\* a range that starts at or after the end of the object is answered with an
\* error (InvalidRange, status 416)
GetObject(object, range, outcome) ==
  IF outcome = "request error" THEN [err |-> "request", body |-> <<>>]
  ELSE IF outcome = "whole" \/ ~ValidRange(range)
       THEN [err  |-> IF outcome = "body error" THEN "body" ELSE "nil",
             body |-> object]
  ELSE IF range.first >= Len(object) THEN [err |-> "InvalidRange", body |-> <<>>]
  ELSE [err  |-> IF outcome = "body error" THEN "body" ELSE "nil",
        body |-> SubSeq(object, range.first + 1,
                        Min(range.last, Len(object) - 1) + 1)]

\* variant: a failed fetch is tried a second time
Requests_Mut(range, resp) ==
  IF resp.err # "nil" THEN <<range, range>> ELSE <<range>>

\* the GetObject requests one call of s3File.Read sends
Requests(range, resp) == <<range>>

s3Read(object, n, off, outcome) ==
  LET resp == GetObject(object, RangeOf(off, n), outcome)
  IN IF resp.err # "nil"
     THEN [data |-> <<>>, errno |-> "EIO", reqs |-> Requests(RangeOf(off, n), resp)]
     ELSE [data |-> resp.body, errno |-> "OK", reqs |-> Requests(RangeOf(off, n), resp)]

\* ----------------------------------------- open, read, release callbacks
Lens == 0..MaxRead
Offs == 0..(MaxLen + 1)

\* a callback as the kernel sees it; fault tells that the disk or the store
\* failed the call for a reason of its own
Call(kind, n, s, off, len, fault, r) ==
  [kind |-> kind, node |-> n, sess |-> s, off |-> off, len |-> len,
   fault |-> fault, data |-> r.data, errno |-> r.errno, req |-> <<>>,
   hint |-> ""]

\* the requests of a remote call, each with the key it was sent for (Key:
\* &f.s3Key)
Keyed(n, reqs) ==
  [i \in 1..Len(reqs) |-> [key |-> n, first |-> reqs[i].first, last |-> reqs[i].last]]

\* variant: a descriptor is kept although os.Open failed
Acquired_Mut(s, opened) == {s}

\* the descriptors that os.Open(f.path) adds for session s
Acquired(s, opened) == IF opened THEN {s} ELSE {}

\* localFile.Open: session s is the next one unused; a failed open hands
\* no localFileHandle to the kernel
LocalOpen(n, s, opened) ==
  /\ n \in LocalNodes
  /\ sess[s].st = "none"
  /\ \A x \in Sessions : x < s => sess[x].st # "none"
  /\ sess' = [sess EXCEPT ![s] = [node |-> n, closes |-> 0,
                                  st |-> IF opened THEN "open" ELSE "failed"]]
  /\ fds' = fds \cup Acquired(s, opened)
  /\ op' = Call("open", n, s, 0, 0, ~opened,
                [data |-> <<>>, errno |-> IF opened THEN "OK" ELSE "EIO"])
  /\ UNCHANGED <<content, rd, rcall>>

\* localFileHandle.Read on session s; after Release the os.File is closed
LocalRead(s, n, off, fault) ==
  /\ sess[s].st \in {"open", "released"}
  /\ op' = Call("read", sess[s].node, s, off, n, fault,
                localRead(content[sess[s].node], s \notin fds, n, off, fault))
  /\ UNCHANGED <<content, sess, fds, rd, rcall>>

\* variant: a failing close is answered with success
ReleaseErrno_Mut(failed) == "OK"

\* if err := fh.file.Close(); err != nil { return syscall.EIO }; return 0
ReleaseErrno(failed) == IF failed THEN "EIO" ELSE "OK"

\* variant: the close takes the descriptors of every session with it
ClosedBy_Mut(s) == Sessions

\* the descriptors that fh.file.Close() gives back
ClosedBy(s) == {s}

\* localFileHandle.Release on session s: Close is called once; it fails when
\* the system call does or when the file was closed before
Release(s, closeFails) ==
  /\ sess[s].st \in {"open", "released"}
  /\ sess[s].closes < MaxCloses
  /\ sess' = [sess EXCEPT ![s].st = "released", ![s].closes = @ + 1]
  /\ fds' = fds \ ClosedBy(s)
  /\ op' = Call("release", sess[s].node, s, 0, 0, closeFails,
                [data |-> <<>>, errno |-> ReleaseErrno(closeFails \/ s \notin fds)])
  /\ UNCHANGED <<content, rd, rcall>>

\* s3File.Read on remote node n
S3Read(n, len, off, outcome) ==
  /\ n \in S3Nodes
  /\ LET r == s3Read(content[n], len, off, outcome)
     IN op' = [Call("s3read", n, 0, off, len, Failing(outcome), r)
                 EXCEPT !.req = Keyed(n, r.reqs)]
  /\ UNCHANGED <<content, sess, fds, rd, rcall>>

\* variant: no hint is given to the kernel
OpenHint_Mut == ""

\* fuse.FOPEN_KEEP_CACHE
OpenHint == "FOPEN_KEEP_CACHE"

\* s3File.Open: return nil, fuse.FOPEN_KEEP_CACHE, 0
S3Open(n) ==
  /\ n \in S3Nodes
  /\ op' = [Call("s3open", n, 0, 0, 0, FALSE, [data |-> <<>>, errno |-> "OK"])
              EXCEPT !.hint = OpenHint]
  /\ UNCHANGED <<content, sess, fds, rd, rcall>>

\* a reader starts on an open session at offset 0
StartRead(s) ==
  /\ rd.st = "idle"
  /\ sess[s].st = "open"
  /\ rd' = [sess |-> s, got |-> <<>>, st |-> "reading"]
  /\ UNCHANGED <<content, sess, fds, op, rcall>>

\* the reader's next read, at the offset it has reached; it ends on a read
\* that returns no bytes
ReadNext(n, fault) ==
  /\ rd.st = "reading"
  /\ LET s == rd.sess
         r == localRead(content[sess[s].node], s \notin fds, n, Len(rd.got), fault)
     IN /\ op' = Call("read", sess[s].node, s, Len(rd.got), n, fault, r)
        /\ rd' = IF r.errno = "EIO" THEN [rd EXCEPT !.st = "failed"]
                 ELSE IF r.data = <<>> THEN [rd EXCEPT !.st = "done"]
                 ELSE [rd EXCEPT !.got = @ \o r.data]
  /\ UNCHANGED <<content, sess, fds, rcall>>

\* one local and one remote file with the same content; one session
InitRead ==
  /\ setupIdle
  /\ serveIdle
  /\ treeIdle
  /\ mainIdle
  /\ \E c \in Contents : content = [n \in Nodes |-> c]
  /\ sess = [s \in Sessions |-> NoSession]
  /\ fds = {}
  /\ op = NoOp
  /\ rd = NoReader
  /\ rcall = [t \in Workers |-> NoRead]

NextRead ==
  /\ \/ \E opened \in BOOLEAN : LocalOpen("l1", 1, opened)
     \/ \E n \in Lens \ {0}, off \in Offs, fault \in BOOLEAN : LocalRead(1, n, off, fault)
     \/ \E closeFails \in BOOLEAN : Release(1, closeFails)
     \/ \E n \in Lens \ {0}, off \in Offs, outcome \in Outcomes : S3Read("s1", n, off, outcome)
     \/ StartRead(1)
     \/ \E n \in Lens \ {0}, fault \in BOOLEAN : ReadNext(n, fault)
  /\ UNCHANGED <<setupVars, serveVars, treeVars, mainVars>>

SpecRead == InitRead /\ [][NextRead]_vars

\* sessions on two local files of one byte each; a read asks for one byte at
\* offset 0
InitSession ==
  /\ setupIdle
  /\ serveIdle
  /\ treeIdle
  /\ mainIdle
  /\ content = [n \in Nodes |-> <<"x">>]
  /\ sess = [s \in Sessions |-> NoSession]
  /\ fds = {}
  /\ op = NoOp
  /\ rd = NoReader
  /\ rcall = [t \in Workers |-> NoRead]

NextSession ==
  /\ \/ \E n \in LocalNodes, s \in Sessions, opened \in BOOLEAN : LocalOpen(n, s, opened)
     \/ \E s \in Sessions, fault \in BOOLEAN : LocalRead(s, 1, 0, fault)
     \/ \E s \in Sessions, closeFails \in BOOLEAN : Release(s, closeFails)
  /\ UNCHANGED <<setupVars, serveVars, treeVars, mainVars>>

SpecSession == InitSession /\ [][NextSession]_vars

\* one caller's attribute calls on two remote and two local nodes, next to
\* one session on each local file and reads of one byte at offset 0; the
\* disk and the store fail every read and every close
InitFrame ==
  /\ setupIdle
  /\ serveIdle
  /\ treeIdle
  /\ mainIdle
  /\ ioIdle

NextFrame ==
  \/ \E n \in S3Nodes : GetattrEnter(1, n)
  \/ OnceLock(1)
  \/ \E resp \in RemoteStates : HeadObjectReturn(1, resp)
  \/ GetattrReturn(1)
  \/ \E n \in LocalNodes, info \in DiskStates : LocalGetattr(1, n, info)
  \/ /\ \/ LocalOpen("l1", 1, TRUE)
        \/ LocalOpen("l2", 2, TRUE)
        \/ \E s \in {1, 2} : LocalRead(s, 1, 0, TRUE)
        \/ \E s \in {1, 2} : Release(s, TRUE)
        \/ \E n \in S3Nodes : S3Read(n, 1, 0, "request error")
     /\ UNCHANGED <<setupVars, serveVars, treeVars, mainVars>>

SpecFrame == InitFrame /\ [][NextFrame]_vars

\* ------------------------------------------------------ concurrent reads
\* a worker enters localFileHandle.Read on session s with its own dest, off
ReadEnter(t, s, n, off) ==
  /\ rcall[t].st # "issued"
  /\ sess[s].st = "open"
  /\ rcall' = [rcall EXCEPT ![t] =
       [NoRead EXCEPT !.st = "issued", !.kind = "read", !.node = sess[s].node,
                      !.sess = s, !.off = off, !.len = n]]
  /\ UNCHANGED <<content, sess, fds, op, rd>>

\* a worker enters s3File.Read on remote node n
S3ReadEnter(t, n, len, off) ==
  /\ rcall[t].st # "issued"
  /\ n \in S3Nodes
  /\ rcall' = [rcall EXCEPT ![t] =
       [NoRead EXCEPT !.st = "issued", !.kind = "s3read", !.node = n,
                      !.off = off, !.len = len]]
  /\ UNCHANGED <<content, sess, fds, op, rd>>

\* variant: the read goes on where the latest read ended, as read(2) on a
\* shared descriptor does
OffsetUsed_Mut(t) == op.off + Len(op.data)

\* the offset handed to ReadAt and written into the Range header: the
\* callback's own argument
OffsetUsed(t) == rcall[t].off

\* the worker's ReadAt is made and localFileHandle.Read returns
ReadReturn(t, fault) ==
  /\ rcall[t].st = "issued"
  /\ rcall[t].kind = "read"
  /\ LET c == rcall[t]
         r == localRead(content[c.node], c.sess \notin fds, c.len,
                        OffsetUsed(t), fault)
     IN /\ rcall' = [rcall EXCEPT ![t] =
             [c EXCEPT !.st = "returned", !.fault = fault, !.data = r.data,
                       !.errno = r.errno]]
        /\ op' = Call("read", c.node, c.sess, c.off, c.len, fault, r)
  /\ UNCHANGED <<content, sess, fds, rd>>

\* the worker's GetObject is answered and s3File.Read returns
S3ReadReturn(t, outcome) ==
  /\ rcall[t].st = "issued"
  /\ rcall[t].kind = "s3read"
  /\ LET c == rcall[t]
         r == s3Read(content[c.node], c.len, OffsetUsed(t), outcome)
     IN /\ rcall' = [rcall EXCEPT ![t] =
             [c EXCEPT !.st = "returned", !.fault = (outcome # "ok"),
                       !.data = r.data, !.errno = r.errno]]
        /\ op' = [Call("s3read", c.node, 0, c.off, c.len, Failing(outcome), r)
                    EXCEPT !.req = Keyed(c.node, r.reqs)]
  /\ UNCHANGED <<content, sess, fds, rd>>

\* two workers read one local file through one shared session and one
\* remote file, at offsets 0 and 1 with buffers of 1 and 2 bytes
InitConc ==
  /\ setupIdle
  /\ serveIdle
  /\ treeIdle
  /\ mainIdle
  /\ \E c \in {x \in Contents : Len(x) = MaxLen} : content = [n \in Nodes |-> c]
  /\ sess = [s \in Sessions |-> NoSession]
  /\ fds = {}
  /\ op = NoOp
  /\ rd = NoReader
  /\ rcall = [t \in Workers |-> NoRead]

NextConc ==
  /\ \/ LocalOpen("l1", 1, TRUE)
     \/ \E t \in {1, 2}, n \in {1, 2}, off \in {0, 1} : ReadEnter(t, 1, n, off)
     \/ \E t \in {1, 2}, n \in {1, 2}, off \in {0, 1} : S3ReadEnter(t, "s1", n, off)
     \/ \E t \in {1, 2}, fault \in BOOLEAN : ReadReturn(t, fault)
     \/ \E t \in {1, 2}, outcome \in {"ok", "request error"} : S3ReadReturn(t, outcome)
  /\ UNCHANGED <<setupVars, serveVars, treeVars, mainVars>>

SpecConc == InitConc /\ [][NextConc]_vars

\* ------------------------------------------------- callbacks on a mount
\* the root holds one or two files; fs.Mount attaches it and one caller's
\* attribute, open, read and release callbacks follow
Live == mpc = "serving"

InitLive ==
  /\ setupIdle
  /\ serveIdle
  /\ rootFiles \in {f \in FlatMaps : "a_file.txt" \in DOMAIN f
                                     /\ DOMAIN f \subseteq {"a_file.txt", "a/b.txt"}}
  /\ tree = NoTree
  /\ prevTree = NoTree
  /\ mpc = "mount"
  /\ answered = 0
  /\ ioIdle

NextLive ==
  \/ \E order \in Orders(DOMAIN rootFiles), lib \in LibKinds, mounted \in BOOLEAN :
       MainMount(order, lib, mounted)
  \/ Live /\ DirGetattr(1, "d1")
  \/ Live /\ GetattrEnter(1, "s1")
  \/ OnceLock(1)
  \/ \E resp \in RemoteStates : HeadObjectReturn(1, resp)
  \/ GetattrReturn(1)
  \/ \E info \in DiskStates : Live /\ LocalGetattr(1, "l1", info)
  \/ /\ Live
     /\ \/ \E opened \in BOOLEAN : LocalOpen("l1", 1, opened)
        \/ \E fault \in BOOLEAN : LocalRead(1, 1, 0, fault)
        \/ \E closeFails \in BOOLEAN : Release(1, closeFails)
        \/ \E outcome \in Outcomes : S3Read("s1", 1, 0, outcome)
     /\ UNCHANGED <<setupVars, serveVars, treeVars, mainVars>>

SpecLive == InitLive /\ [][NextLive]_vars

\* reads of any length at any int64 offset on one remote file, and reads
\* through one session of one local file
InitRemote ==
  /\ setupIdle
  /\ serveIdle
  /\ treeIdle
  /\ mainIdle
  /\ \E c \in Contents : content = [n \in Nodes |-> c]
  /\ sess = [s \in Sessions |-> NoSession]
  /\ fds = {}
  /\ op = NoOp
  /\ rd = NoReader
  /\ rcall = [t \in Workers |-> NoRead]

NextRemote ==
  /\ \/ \E n \in Lens, off \in 0..MaxInt, outcome \in AllOutcomes :
          S3Read("s1", n, off, outcome)
     \/ LocalOpen("l1", 1, TRUE)
     \/ \E n \in Lens, off \in Offs, fault \in BOOLEAN : LocalRead(1, n, off, fault)
  /\ UNCHANGED <<setupVars, serveVars, treeVars, mainVars>>

SpecRemote == InitRemote /\ [][NextRemote]_vars

\* opens, reads and attribute calls on one remote file that is not empty,
\* next to the sessions of one local file
InitOpen ==
  /\ setupIdle
  /\ serveIdle
  /\ treeIdle
  /\ mainIdle
  /\ \E c \in Contents \ {<<>>} : content = [n \in Nodes |-> c]
  /\ sess = [s \in Sessions |-> NoSession]
  /\ fds = {}
  /\ op = NoOp
  /\ rd = NoReader
  /\ rcall = [t \in Workers |-> NoRead]

NextOpen ==
  \/ GetattrEnter(1, "s1")
  \/ OnceLock(1)
  \/ \E resp \in RemoteStates : HeadObjectReturn(1, resp)
  \/ GetattrReturn(1)
  \/ /\ \/ S3Open("s1")
        \/ \E outcome \in Outcomes : S3Read("s1", 1, 0, outcome)
        \/ \E opened \in BOOLEAN : LocalOpen("l1", 1, opened)
     /\ UNCHANGED <<setupVars, serveVars, treeVars, mainVars>>

SpecOpen == InitOpen /\ [][NextOpen]_vars

\* ================================================================ claims
\* a worker whose latest Getattr call has returned
Finished(t) == pc[t] = "idle" /\ calls[t] > 0

\* the latest NewRoot call got as far as resolveVersion / buildFileMap
Resolving == last.n > 0 /\ last.stage # "setup"
Mapping   == last.n > 0 /\ last.stage \in {"buildFileMap", "done"}

\* the state of the version the latest call resolved
LastState == obj.versions[last.rv.ver]

\* s is a decimal numeral, all of it, of a value of at least 1
IsPositiveDecimal(s) ==
  /\ s # <<>>
  /\ \A i \in 1..Len(s) : s[i] \in DecDigits
  /\ ParseInt(s) >= 1

\* C1: concurrent first Getattr calls on one remote node run the HeadObject
\* probe exactly once: never a second probe, no call gets past sizeOnce while
\* the probe is in flight, one probe has run once any call has returned, and
\* all calls that have returned report the same result.
C1_ProbeExactlyOnce ==
  \A n \in S3Nodes :
    /\ probes[n] <= 1
    /\ served[n] > 0 => probes[n] = 1
    /\ \A t \in Workers :
         (pc[t] = "ret" /\ node[t] = n) =>
           (onceDone[n] /\ \A u \in Workers : ~(pc[u] = "head" /\ node[u] = n))
    /\ \A t, u \in Workers :
         (Finished(t) /\ Finished(u) /\ node[t] = n /\ node[u] = n) => res[t] = res[u]
    /\ Cardinality(returned[n]) <= 1

\* every worker has made exactly one call, each arrived on s1 before the size
\* was fetched, and each got the size
C1_Witness ==
  /\ \A t \in Workers :
       /\ Finished(t) /\ calls[t] = 1 /\ node[t] = "s1"
       /\ ~entryDone[t] /\ res[t].errno = "OK" /\ res[t].Size = 1
  /\ probes["s1"] = 1

\* C2: a failed probe is not cached: the node stays unattributed after it, and
\* no later call returns the I/O failure without having probed again.
C2_FailureNotCached ==
  /\ \A n \in S3Nodes : ~(onceDone[n] /\ sizeErr[n])
  /\ \A t \in Workers :
       (Finished(t) /\ node[t] \in S3Nodes /\ entryDone[t]) => res[t].errno = "OK"

C3_RemoteInv ==
  /\ \A n \in S3Nodes :
       /\ probes[n] <= 1
       /\ Cardinality(returned[n]) <= 1
       /\ returned[n] # {} => (onceDone[n] /\ ~sizeErr[n] /\ returned[n] = {size[n]})
  /\ \A n \in LocalNodes : stats[n] = served[n]

C3_RemoteStep ==
  \A n \in S3Nodes :
    onceDone[n] => (onceDone'[n] /\ size'[n] = size[n] /\ sizeErr'[n] = sizeErr[n])

C4_TokenTableStated ==
  Resolving =>
    /\ last.flag \in {<<>>, <<"v", "1">>} => last.rv.err = NoErr
    /\ last.flag \in {<<"v", "0", "1">>, <<"v", "0">>, <<"v", "X">>}
         => last.rv.err.kind = "invalid version"

\* C4, amended: "" resolves to the head, "v1" and "v01" both resolve to
\* version 1, "v0" and "vX" are invalid.
C4_TokenTable ==
  Resolving =>
    /\ last.flag = <<>> => (last.rv.err = NoErr /\ last.rv.ver = obj.head)
    /\ last.flag \in {<<"v", "1">>, <<"v", "0", "1">>}
         => (last.rv.err = NoErr /\ last.rv.ver = 1)
    /\ last.flag \in {<<"v", "0">>, <<"v", "X">>}
         => (last.rv.err.kind = "invalid version" /\ last.rv.ver = 0)

\* "v01" was mounted on an object whose head is not version 1
C4_Witness ==
  /\ last.flag = <<"v", "0", "1">>
  /\ last.stage = "done"
  /\ last.rv.ver = 1
  /\ obj.head = 2

\* C5: a non-empty flag resolves only if all of what follows one optional v
\* is a positive decimal number; otherwise the call fails with the
\* invalid-version error and the object is not asked for a version.
C5_WholeRemainderParsed ==
  (Resolving /\ last.flag # <<>>) =>
    /\ last.rv.err = NoErr => IsPositiveDecimal(StripV(last.flag))
    /\ ~IsPositiveDecimal(StripV(last.flag))
         => (last.rv.err.kind = "invalid version" /\ last.rv.asked = 0)

\* C6: a well-formed v<N> with N beyond the head fails with the
\* version-not-found error, not the invalid-version error, and NewRoot
\* returns that error and no root.
C6_VersionNotFound ==
  (/\ Resolving
   /\ last.flag # <<>>
   /\ Head(last.flag) = "v"
   /\ IsPositiveDecimal(Tail(last.flag))
   /\ ParseInt(Tail(last.flag)) > obj.head)
  => /\ last.rv.err.kind = "version not found"
     /\ last.rv.err.kind # "invalid version"
     /\ last.rv.asked = 1
     /\ last.stage = "resolveVersion"
     /\ ~last.out.ok
     /\ last.out.root = NoRoot
     /\ last.out.err = last.rv.err

\* "v99" on an object whose head is v1
C6_Witness ==
  /\ Resolving
  /\ last.flag = <<"v", "9", "9">>
  /\ obj.head = 1
  /\ ~last.out.ok

\* the two latest calls used "" and the head's own name, in either order
HeadPair ==
  /\ prev.n > 0
  /\ \/ last.flag = <<>> /\ prev.flag = VNumString(obj.head)
     \/ prev.flag = <<>> /\ last.flag = VNumString(obj.head)

\* C7: "" resolves to the head: mounting with "" and with the head's name
\* resolves the same version and yields the same path-to-locator map.
C7_EmptyIsHead ==
  /\ (Resolving /\ last.flag = <<>>) => last.rv.ver = obj.head
  /\ HeadPair =>
       /\ last.rv.ver = obj.head /\ prev.rv.ver = obj.head
       /\ last.fm.files = prev.fm.files
       /\ last.out.ok = prev.out.ok
       /\ last.out.root = prev.out.root
       /\ last.out.info = prev.out.info

\* both mounts succeeded on an object whose head differs from its version 1
C7_Witness ==
  /\ HeadPair
  /\ obj.head = 2
  /\ obj.versions[1] # obj.versions[2]
  /\ last.out.ok /\ prev.out.ok
  /\ DOMAIN last.out.root.files # {}

\* every digest of the resolved state has a manifest entry with a content path
SatisfiesI1 == \A p \in DOMAIN LastState : Len(ManifestGet(obj, LastState[p])) > 0

\* C8: when every digest of the state has a non-empty manifest entry, the map
\* built has exactly the state's logical paths as keys, so as many entries as
\* the state has paths, and Info.FileCount is that number.
C8_MapCoversState ==
  (Mapping /\ SatisfiesI1) =>
    /\ ~last.fm.files.isNil
    /\ DOMAIN last.fm.files.m = DOMAIN LastState
    /\ last.out.ok
    /\ DOMAIN last.out.root.files = DOMAIN LastState
    /\ last.out.info.FileCount = Cardinality(DOMAIN LastState)

\* two logical paths with the same content were mapped
C8_Witness ==
  /\ Mapping /\ SatisfiesI1
  /\ DOMAIN LastState = LogicalPaths
  /\ \E d \in Digests : \A p \in LogicalPaths : LastState[p] = d
  /\ last.out.info.FileCount = 2

\* the locator the backend is given for a path relative to the storage root
Locator(rel) == IF backend = "local" THEN AbsRoot \o "/" \o rel ELSE rel

\* C9: the locator of every logical path is the object root joined with the
\* first content path the manifest lists for the path's digest, and with no
\* other content path of that list; NewOCFLObject maps the path the same way.
C9_FirstContentPathWins ==
  (Mapping /\ ~last.fm.files.isNil) =>
    \A p \in DOMAIN last.fm.files.m :
      LET cps == ManifestGet(obj, LastState[p])
      IN /\ last.fm.files.m[p] = obj.path \o "/" \o cps[1]
         /\ ~last.old.isNil /\ last.old.m[p] = obj.path \o "/" \o cps[1]
         /\ last.out.root.files[p] = Locator(obj.path \o "/" \o cps[1])
         /\ \A i \in 2..Len(cps) :
              last.out.root.files[p] # Locator(obj.path \o "/" \o cps[i])

\* a path whose digest has two content paths was mapped
C9_Witness ==
  /\ last.stage = "done"
  /\ \E p \in DOMAIN LastState : Len(ManifestGet(obj, LastState[p])) = 2

\* C10: when the state references a digest without a content path,
\* buildFileMap returns the missing-manifest-entry error for such a digest and
\* no map, and NewRoot returns the error and no root.
C10_MissingEntryNoMap ==
  (Mapping /\ ~SatisfiesI1) =>
    /\ last.fm.err.kind = "missing manifest entry"
    /\ \E p \in DOMAIN LastState :
         /\ last.fm.err.detail = LastState[p]
         /\ Len(ManifestGet(obj, LastState[p])) = 0
    /\ last.fm.files = NilMap
    /\ last.stage = "buildFileMap"
    /\ ~last.out.ok
    /\ last.out.root = NoRoot
    /\ last.out.err = last.fm.err

\* one path of the state can be mapped and the other cannot
C10_Witness ==
  /\ Mapping
  /\ DOMAIN LastState = LogicalPaths
  /\ \E p, q \in LogicalPaths :
       /\ Len(ManifestGet(obj, LastState[p])) > 0
       /\ Len(ManifestGet(obj, LastState[q])) = 0
  /\ ~last.out.ok

\* ---------------------------------------------------------- tree claims
\* the inodes reachable from inode id, each with the names that lead to it
RECURSIVE Below(_, _, _)
Below(t, id, path) ==
  UNION {{<<Append(path, name), t.inodes[id].children[name]>>}
           \cup Below(t, t.inodes[id].children[name], Append(path, name)) :
         name \in DOMAIN t.inodes[id].children}

Entries(t) == Below(t, 1, <<>>)

\* the children of every directory and the locator of every file node
Shape(t) ==
  {<<e[1], t.inodes[e[2]].mode, t.inodes[e[2]].key>> : e \in Entries(t)}

\* one logical path needs as a directory what another names as a file
Collision(files) ==
  \E p, q \in DOMAIN files :
    /\ Len(Split(p)) < Len(Split(q))
    /\ SubSeq(Split(q), 1, Len(Split(p))) = Split(p)

ExpectedShape(files) ==
  {<<Split(p), "file", files[p]>> : p \in DOMAIN files}
  \cup UNION {{<<SubSeq(Split(p), 1, k), "dir", "">> : k \in 1..(Len(Split(p)) - 1)} :
              p \in DOMAIN files}

\* C11: for a flat map without file/directory collisions the tree holds one
\* file node per logical path, reached through its components and bound to
\* its locator, one directory node per distinct proper prefix, and no other
\* node besides the root
C11_TreeMatchesMap ==
  (tree.built /\ ~Collision(rootFiles)) =>
    /\ ~tree.crashed
    /\ Shape(tree) = ExpectedShape(rootFiles)
    /\ Cardinality(Entries(tree)) = Cardinality(ExpectedShape(rootFiles))
    /\ Len(tree.inodes) = 1 + Cardinality(ExpectedShape(rootFiles))

C11_Witness ==
  /\ tree.built
  /\ DOMAIN rootFiles = {"a/b.txt", "a/c.txt"}
  /\ DOMAIN tree.inodes[1].children = {"a"}
  /\ DOMAIN tree.inodes[tree.inodes[1].children["a"]].children = {"b.txt", "c.txt"}

\* C12: for every flat map, two constructions that visit the map in
\* different orders yield the same children of every directory and the same
\* locator of every file node
C12_OrderIndependent ==
  (tree.built /\ prevTree.built) =>
    /\ tree.crashed = prevTree.crashed
    /\ Shape(tree) = Shape(prevTree)

\* C13: when one logical path names as a file what another needs as a
\* directory, construction fails and hands no tree to the server
C13_ConflictFails ==
  (tree.built /\ Collision(rootFiles)) => tree.crashed

\* C14: a callback is answered only from a view whose setup met no error in
\* version resolution, path mapping or tree construction, and whose tree
\* holds every entry of the root's files
C14_NoViewAfterSetupError ==
  (mpc = "serving" \/ answered > 0) =>
    /\ last.out.ok
    /\ ~Collision(rootFiles)
    /\ Shape(tree) = ExpectedShape(rootFiles)

\* ---------------------------------------------------------- read claims
\* the bytes of a file from offset off up to, not including, offset end
Range(file, off, end) == SubSeq(file, off + 1, end)

LocalFile == content[sess[op.sess].node]

\* the latest call was a read of n >= 1 bytes on an open session that the
\* disk did not fail
GoodLocalRead ==
  /\ op.kind = "read"
  /\ op.len >= 1
  /\ op.sess \in fds
  /\ ~op.fault

\* C15: a read of n >= 1 bytes at off on an open session of a local file of
\* length L succeeds with zero bytes when off >= L, with content[off..L-1]
\* when off < L < off+n, and with content[off..off+n-1] when off+n <= L
C15_LocalReadTable ==
  GoodLocalRead =>
    /\ op.errno = "OK"
    /\ op.off >= Len(LocalFile) => op.data = <<>>
    /\ (op.off < Len(LocalFile) /\ Len(LocalFile) < op.off + op.len) =>
         op.data = Range(LocalFile, op.off, Len(LocalFile))
    /\ op.off + op.len <= Len(LocalFile) =>
         op.data = Range(LocalFile, op.off, op.off + op.len)

C15_Witness ==
  /\ GoodLocalRead
  /\ op.off = 1
  /\ op.len = 2
  /\ Len(LocalFile) = 2
  /\ op.data = <<LocalFile[2]>>

\* C16: a read on a remote file whose store answers, at an offset at or
\* beyond the end of the object, succeeds with zero bytes
C16_RemoteReadPastEnd ==
  (op.kind = "s3read" /\ ~op.fault /\ op.off >= Len(content[op.node])) =>
    (op.errno = "OK" /\ op.data = <<>>)

\* C17: a reader that reads a local file of length L from offset 0, each read
\* at the offset reached, until a read returns no bytes, has received exactly
\* the L bytes of the content
C17_FullRead ==
  rd.st = "done" => rd.got = content[sess[rd.sess].node]

C17_Witness ==
  /\ rd.st = "done"
  /\ Len(rd.got) = 2
  /\ op.off = 2
  /\ op.data = <<>>

\* ------------------------------------------------------- session claims
Opened(s) == sess[s].st \in {"open", "released"}

\* C18: the open descriptors are those of the sessions opened and not yet
\* released: a successful open holds one, a failed open none, and a release
\* gives it back whatever the reads on the session returned
C18_HandlesMatchSessions ==
  /\ fds = {s \in Sessions : sess[s].st = "open"}
  /\ (\A s \in Sessions : sess[s].st # "open") => fds = {}

C18_Witness ==
  /\ sess[1].st = "failed"
  /\ sess[2].st = "released"
  /\ op.kind = "release"
  /\ fds = {}

\* session s was released by this step
Released(s) == sess'[s].closes # sess[s].closes

\* C19: a release of a local session calls Close once, answers EIO when the
\* close fails, and opens nothing
C19_ReleaseStep ==
  \A s \in Sessions :
    Released(s) =>
      /\ sess'[s].closes = sess[s].closes + 1
      /\ op'.kind = "release" /\ op'.sess = s
      /\ op'.fault => op'.errno = "EIO"
      /\ fds' \subseteq fds
      /\ \A x \in Sessions \ {s} : sess'[x] = sess[x]

C19_ReleaseClosesOnce == [][C19_ReleaseStep]_vars

C19_Witness ==
  /\ op.kind = "release"
  /\ op.fault
  /\ op.errno = "EIO"
  /\ sess[op.sess].closes = 1
  /\ op.sess \notin fds

\* what a node holds: the size memo of a remote node, the sessions and
\* descriptors of a local node
NodeState(m) ==
  IF m \in S3Nodes
  THEN [memo |-> <<onceDone[m], onceM[m], size[m], sizeErr[m]>>,
        open |-> {}, bytes |-> content[m]]
  ELSE [memo |-> <<>>,
        open |-> {<<s, sess[s], s \in fds>> :
                  s \in {x \in Sessions : Opened(x) /\ sess[x].node = m}},
        bytes |-> content[m]]

\* this step is a failing attribute fetch, read or release on node m
FailsOn(m) ==
  \/ op' # op /\ op'.errno = "EIO" /\ op'.node = m
  \/ \E s \in Sessions : Released(s) /\ sess[s].node = m /\ op'.errno = "EIO"
  \/ m \in S3Nodes /\ sizeErr'[m] /\ ~sizeErr[m]
  \/ \E t \in Workers : res'[t] # res[t] /\ res'[t] = EIO /\ node'[t] = m

\* C20: a failing attribute fetch, read or release on one node answers EIO to
\* that call, changes nothing that another node holds, gives no other caller
\* a result, and leaves the server serving
C20_FailureStep ==
  \A m \in Nodes :
    FailsOn(m) =>
      /\ \A k \in Nodes \ {m} : NodeState(k)' = NodeState(k)
      /\ \A t \in Workers : res'[t] # res[t] => node'[t] = m
      /\ mpc' = mpc

C20_FailureStaysLocal == [][C20_FailureStep]_vars

C20_Witness ==
  /\ op.kind = "release"
  /\ op.errno = "EIO"
  /\ op.node = "l1"
  /\ 2 \in fds
  /\ sizeErr["s1"]
  /\ served["s2"] > 0
  /\ ~sizeErr["s2"]

\* ------------------------------------------------- concurrent read claims
\* C21: under every interleaving of the Read callbacks of two workers on one
\* local session and on one remote node, a read that its backend does not
\* fail returns the bytes of the content at its own offset, up to its own
\* length or the end of the content
C21_ReadsDoNotInterfere ==
  \A t \in Workers :
    (rcall[t].st = "returned" /\ ~rcall[t].fault) =>
      LET c == rcall[t]
          L == Len(content[c.node])
      IN /\ c.errno = "OK"
         /\ c.data = SubSeq(content[c.node], c.off + 1, Min(c.off + c.len, L))

C21_Witness ==
  /\ rcall[1].st = "returned" /\ rcall[1].kind = "read" /\ ~rcall[1].fault
  /\ rcall[2].st = "returned" /\ rcall[2].kind = "read" /\ ~rcall[2].fault
  /\ rcall[1].sess = rcall[2].sess
  /\ rcall[1].off = 0 /\ rcall[1].len = 2
  /\ rcall[2].off = 1 /\ rcall[2].len = 1
  /\ Len(rcall[1].data) = 2
  /\ Len(rcall[2].data) = 1

\* ------------------------------------------------------- mounted claims
\* C22: the root's files and the inode tree are set when the root is
\* attached and no step after that, whatever callbacks it belongs to,
\* changes them
C22_TreeStep == tree.built => (tree' = tree /\ rootFiles' = rootFiles)

C22_TreeImmutable == [][C22_TreeStep]_vars

C22_Witness ==
  /\ tree.built
  /\ Cardinality(Entries(tree)) = 3
  /\ op.kind = "release"
  /\ res[1].errno = "OK"
  /\ served["s1"] > 0

HasWriteBit(m) ==
  \/ (m \div 128) % 2 = 1
  \/ (m \div 16) % 2 = 1
  \/ (m \div 2) % 2 = 1

\* the latest attribute call of worker t was made on a directory
OnDir(t) == node[t] \in DirNodes /\ calls[t] > 0 /\ pc[t] = "idle"

C24_Modes ==
  \A t \in Workers :
    /\ OnDir(t) => res[t].errno = "OK" /\ res[t].Mode = 365 + 16384
    /\ (res[t].errno = "OK" /\ node[t] \in Nodes) => res[t].Mode = 292 + 32768
    /\ res[t].errno = "OK" => ~HasWriteBit(res[t].Mode)

C24_DirStep ==
  \A t \in Workers :
    (node'[t] \in DirNodes /\ calls'[t] # calls[t]) =>
      (probes' = probes /\ stats' = stats /\ op' = op)

\* C24: a directory attribute call asks no backend, never fails and reports
\* mode 0555 of a directory; a successful file attribute call reports mode
\* 0444 of a regular file; no reported mode has a write bit
C24_ReadOnlyModes == [](C24_Modes) /\ [][C24_DirStep]_vars

C24_Witness ==
  /\ OnDir(1)
  /\ res[1].Mode = 365 + 16384
  /\ returned["s1"] \cup returned["l1"] # {}

\* C23: after the mount is made, a SIGINT or SIGTERM never leaves the
\* filesystem mounted: the process neither dies with the mount in place nor
\* stays in server.Wait() after its one Unmount call
C23_InterruptUnmounts == mpc \notin {"killed", "stuck"}

\* the last remote read call
RemoteRead == op.kind = "s3read"

\* C25 (as stated): a remote read of n bytes at offset off asks for the
\* inclusive range from off to off + n - 1 of the node's own key, the end is
\* never before the start (also when n = 0), and the end is the true sum
C25_RangeAsStated ==
  RemoteRead =>
    \A i \in 1..Len(op.req) :
      /\ op.req[i].key = op.node
      /\ op.req[i].first = op.off
      /\ op.req[i].last = op.off + op.len - 1
      /\ op.req[i].last >= op.req[i].first

\* C27: every remote read sends exactly one ranged fetch, whether or not an
\* earlier read fetched the same bytes, and a failed fetch or a failed body
\* ends the call with an I/O failure and no second fetch
C27_OneFetchPerRead ==
  RemoteRead =>
    /\ Len(op.req) = 1
    /\ op.fault => op.errno = "EIO"
    /\ op.errno = "EIO" => op.data = <<>>

\* C27 witness: a remote read whose fetch failed
C27_Witness ==
  /\ RemoteRead
  /\ op.fault
  /\ op.errno = "EIO"
  /\ Len(op.req) = 1
  /\ op.len = 1
  /\ op.off = 0
  /\ content["s1"] # <<>>

\* C28 (as stated): a successful read on either backend returns at most the
\* n bytes asked for, also when the store's body is longer than the range
C28_AtMostRequested ==
  (op.kind \in {"read", "s3read"} /\ op.errno = "OK") => Len(op.data) <= op.len

\* the last call was the open of a remote file
RemoteOpen == op.kind = "s3open"

C26_OpenState ==
  RemoteOpen =>
    /\ op.errno = "OK"
    /\ op.hint = "FOPEN_KEEP_CACHE"
    /\ op.req = <<>>
    /\ op.data = <<>>

C26_ReadState ==
  (RemoteRead /\ ~op.fault) =>
    /\ op.errno = "OK"
    /\ op.data = SubSeq(content[op.node], 1, 1)

C26_OpenStep ==
  (op'.kind = "s3open" /\ op' # op) =>
    UNCHANGED <<sess, fds, size, sizeErr, onceDone, probes, content>>

\* C26: the open of a remote file cannot fail and does nothing: it sends no
\* request, makes no session handle, leaves the size memo as it was and
\* returns the keep-cache hint; a remote read that the store answers succeeds
\* whether or not the node was opened or attributed before
C26_OpenIsNoOp == [](C26_OpenState /\ C26_ReadState) /\ [][C26_OpenStep]_vars

\* C26 witness: a remote file was opened while its size memo was set and a
\* local session was open
C26_Witness ==
  /\ RemoteOpen
  /\ onceDone["s1"]
  /\ fds # {}

\* a remote read succeeded on a node that was never attributed
C26_ReadUnattributed ==
  /\ RemoteRead
  /\ op.errno = "OK"
  /\ op.data # <<>>
  /\ ~onceDone["s1"]
  /\ calls[1] = 0

\* the step is a Release call on session s
ReleaseOf(s) == op'.kind = "release" /\ op'.sess = s /\ sess'[s].closes = sess[s].closes + 1

\* a read on a session that was released before fails and carries no data; a
\* read on a session that is open, on a disk that works, gets the file's byte
C29_ReadState ==
  op.kind = "read" =>
    /\ sess[op.sess].st = "released" => op.errno = "EIO" /\ op.data = <<>>
    /\ (sess[op.sess].st = "open" /\ ~op.fault) =>
         op.errno = "OK" /\ op.data = content[op.node]

\* a second release of a session fails and closes nothing; any release leaves
\* the other sessions and their descriptors as they were
C29_ReleaseIsolated ==
  \A s \in Sessions :
    ReleaseOf(s) =>
      /\ sess[s].st = "released" => op'.errno = "EIO" /\ fds' = fds
      /\ \A x \in Sessions \ {s} : sess'[x] = sess[x] /\ (x \in fds' <=> x \in fds)

\* C29: on the local backend a read after the release of its session is an
\* I/O failure without data, a second release of a session is an I/O failure
\* that closes no other session's handle, and the release of one session
\* leaves reads on another session of the same file working
C29_SessionsIsolated == [](C29_ReadState) /\ [][C29_ReleaseIsolated]_vars

\* C29 witness: a read on a session released twice has failed while another
\* session of the same file is still open
C29_Witness ==
  /\ op.kind = "read"
  /\ op.errno = "EIO"
  /\ ~op.fault
  /\ sess[op.sess].closes = 2
  /\ \E x \in Sessions \ {op.sess} :
       sess[x].st = "open" /\ sess[x].node = op.node /\ x \in fds

\* callers whose HeadObject request for node n is out or has just succeeded
Fetching(n) == {t \in {1, 2} : node[t] = n /\ pc[t] \in {"HeadObject", "sizeOK"}}

C30_State ==
  /\ Cardinality(Fetching("s1")) <= 1
  /\ Cardinality(returned["s1"]) <= 1

C30_FailedStep ==
  \A t \in {1, 2} :
    (pc[t] = "HeadObject" /\ pc'[t] = "idle") =>
      (res'[t].errno = "EIO" /\ onceDone' = onceDone)

\* C30: in the S3-only implementation, under any interleaving of Getattr
\* calls on one node, no second size fetch goes out while one is out or has
\* succeeded, every call returns the same size, and a failed fetch leaves the
\* flag as it was
C30_GuardlessMemo == [](C30_State) /\ [][C30_FailedStep]_vars

====
